---------------------------- MODULE Spec2Model ----------------------------
(***************************************************************************)
(* A model of package randgraph (src/randgraph.go): the Binomial source,   *)
(* its constructor NewBinomial, and the goroutines started by Vertices()   *)
(* and Edges(), each handing its elements to a consumer over an unbuffered *)
(* channel.  The client is the one of TestBinomial                         *)
(* (src/randgraph_test.go): construct, set the exported fields and the     *)
(* random source, then range over Vertices() and Edges().                  *)
(*                                                                         *)
(* Numbers.  P and the results of Float64 are multiples of 1/PScale, held  *)
(* as their numerators: P = 1 is PScale, and a draw in [0,1) is one of     *)
(* 0 .. PScale-1.                                                          *)
(*                                                                         *)
(* Random source.  A *rand.Rand is a seed and the number of words drawn    *)
(* from it so far.  The seed fixes the whole stream of words; the model    *)
(* keeps the prefix of that stream that has been read (seed) and chooses   *)
(* each further word when it is first read.  A source started again from   *)
(* the same seed (testRand) reads the same words again.                    *)
(***************************************************************************)
EXTENDS Integers, Sequences, FiniteSets, TLC

\* Bounds of the model.
MaxV == 2
MaxN == 2
MaxWork == 4
PScale == 2
MaxItems == 2

VARIABLES
    pc,      \* position of the client: "new", "constructed", "ready"
    args,    \* the arguments NewBinomial was called with
    b,       \* the *Binomial returned: <<>> is nil, <<r>> points to r
    err,     \* the error returned: "nil" or its message
    seed,    \* the words of the random stream read so far
    rnd,     \* b.rand: the number of words drawn since it was seeded
    run,     \* number of the current generation run
    calls,   \* one record per Vertices() or Edges() call made
    src,     \* the testSource: <<>> before newTestSource, then <<r>>
    rg,      \* the *RandGraph: <<>> before New, then <<r>>
    ret,     \* one record per RandGraph.Vertices() or Edges() call made
    dot      \* the WriteDOT call: its position, channel and output

\* The state of the facade and of its test double.
fvars == <<src, rg, ret, dot>>

vars == <<pc, args, b, err, seed, rnd, run, calls, fvars>>

NoLabel == <<>>

\* The labeling functions the client installs (strconv.Itoa(id) and
\* fmt.Sprintf("%v-%v-%v", id, v0, v1) in the tests): injective in their
\* arguments.
VertexLabelFn(id) == <<id>>
EdgeLabelFn(id, v0, v1) == <<id, v0, v1>>

Vertex(id, label) == [ID |-> id, Label |-> label]
Edge(id, v0, v1, directed, label) ==
    [ID |-> id, V0 |-> v0, V1 |-> v1, Directed |-> directed, Label |-> label]

----------------------------------------------------------------------------
\* NewBinomial

\* NewBinomial without the upper check of p.
NewBinomialNoUpper(v, n, p) ==
    IF v < 0 THEN [b |-> <<>>, err |-> "invalid number of vertices"]
    ELSE IF n < 0 THEN [b |-> <<>>, err |-> "invalid number of trials"]
    ELSE IF p < 0
        THEN [b |-> <<>>, err |-> "invalid success probability"]
    ELSE [b |-> << [V |-> v, N |-> n, P |-> p,
                    Loops |-> FALSE, Multiedges |-> FALSE, Directed |-> FALSE,
                    VertexLabel |-> FALSE, EdgeLabel |-> FALSE] >>,
          err |-> "nil"]

NewBinomial(v, n, p) ==
    IF v < 0 THEN [b |-> <<>>, err |-> "invalid number of vertices"]
    ELSE IF n < 0 THEN [b |-> <<>>, err |-> "invalid number of trials"]
    ELSE IF p < 0 \/ p > PScale
        THEN [b |-> <<>>, err |-> "invalid success probability"]
    ELSE [b |-> << [V |-> v, N |-> n, P |-> p,
                    Loops |-> FALSE, Multiedges |-> FALSE, Directed |-> FALSE,
                    VertexLabel |-> FALSE, EdgeLabel |-> FALSE] >>,
          err |-> "nil"]

\* The arguments tried: one value outside each end of every valid range.
ArgV == -1 .. MaxV
ArgN == -1 .. MaxN
ArgP == -1 .. PScale + 1

CallNewBinomial ==
    /\ pc = "new"
    /\ \E v \in ArgV, n \in ArgN, p \in ArgP :
        /\ v * n <= MaxWork
        /\ args' = [v |-> v, n |-> n, p |-> p]
        /\ b' = NewBinomial(v, n, p).b
        /\ err' = NewBinomial(v, n, p).err
    /\ rnd' = 0
    /\ pc' = "constructed"
    /\ UNCHANGED <<fvars, seed, run, calls>>

\* The client sets the exported fields and b.rand = testRand().
Configure ==
    /\ pc = "constructed"
    /\ err = "nil"
    /\ \E loops \in BOOLEAN, multiedges \in BOOLEAN, directed \in BOOLEAN,
          vl \in BOOLEAN, el \in BOOLEAN :
        b' = << [b[1] EXCEPT !.Loops = loops, !.Multiedges = multiedges,
                             !.Directed = directed,
                             !.VertexLabel = vl, !.EdgeLabel = el] >>
    /\ rnd' = 0
    /\ pc' = "ready"
    /\ UNCHANGED <<fvars, args, err, seed, run, calls>>

----------------------------------------------------------------------------
\* The random source

Float64(w) == w % PScale
IntN(w, n) == w % n

\* A draw from a source that is not the seeded one (the package-level
\* generator): any word, whatever was read before.
DrawUnseeded(w, fresh) ==
    /\ w \in fresh
    /\ seed' = IF rnd < Len(seed) THEN seed ELSE Append(seed, w)
    /\ rnd' = rnd + 1

\* A draw from a source of the call's own: the generator's source is left
\* where it was.
DrawDetached(w, fresh) ==
    /\ w \in fresh
    /\ UNCHANGED <<seed, rnd>>

\* The next word of the stream is w: the recorded one if this position of
\* the stream was read before, otherwise any of fresh.
Draw(w, fresh) ==
    /\ IF rnd < Len(seed)
          THEN w = seed[rnd + 1] /\ seed' = seed
          ELSE w \in fresh /\ seed' = Append(seed, w)
    /\ rnd' = rnd + 1

----------------------------------------------------------------------------
\* Vertices() and Edges(): the call

\* Some stream of an earlier call on the generator is part-way: it has
\* delivered an element and is not closed.
Midway ==
    \E c \in DOMAIN calls :
        /\ calls[c].kind \in {"V", "E"}
        /\ calls[c].got # <<>> /\ ~calls[c].closed

\* A call that builds its first element before it returns.
NewCallEager(kind) ==
    [kind |-> kind, run |-> run, pc |-> "send", closed |-> FALSE,
     i |-> 0, tail |-> 0, start |-> 0, heads |-> {}, trial |-> 0, head |-> 0,
     id |-> 0, label |-> VertexLabelFn(0), got |-> <<>>,
     consumer |-> "ranging", draws |-> 0, labelled |-> << <<0>> >>,
     trace |-> <<>>, built |-> << Vertex(0, VertexLabelFn(0)) >>,
     overlap |-> Midway]

\* A call whose edge IDs go on from a counter kept in the generator, here
\* one that counts the calls.
NewCallSharedID(kind) ==
    [kind |-> kind, run |-> run, pc |-> "loop", closed |-> FALSE,
     i |-> 0, tail |-> 0, start |-> 0, heads |-> {}, trial |-> 0, head |-> 0,
     id |-> Len(calls), label |-> NoLabel, got |-> <<>>,
     consumer |-> "ranging", draws |-> 0, labelled |-> <<>>, trace |-> <<>>,
     built |-> <<>>, overlap |-> Midway]

NewCall(kind) ==
    [kind |-> kind, run |-> run, pc |-> "loop", closed |-> FALSE,
     i |-> 0, tail |-> 0, start |-> 0, heads |-> {}, trial |-> 0, head |-> 0,
     id |-> 0, label |-> NoLabel, got |-> <<>>, consumer |-> "ranging",
     draws |-> 0, labelled |-> <<>>, trace |-> <<>>, built |-> <<>>,
     overlap |-> Midway]

Called(kind) == \E c \in DOMAIN calls : calls[c].kind = kind /\ calls[c].run = run

CallVertices ==
    /\ pc = "ready"
    /\ ~Called("V")
    /\ calls' = Append(calls, NewCall("V"))
    /\ UNCHANGED <<fvars, pc, args, b, err, seed, rnd, run>>

\* The client of TestBinomial ranges over Vertices() to its end before it
\* calls Edges().
CallEdges ==
    /\ pc = "ready"
    /\ Called("V") /\ ~Called("E")
    /\ \A c \in DOMAIN calls : calls[c].consumer = "done"
    /\ calls' = Append(calls, NewCall("E"))
    /\ UNCHANGED <<fvars, pc, args, b, err, seed, rnd, run>>

Set(c, r) == calls' = [calls EXCEPT ![c] = r]

----------------------------------------------------------------------------
\* The goroutine of Vertices()

\* The loop running once too often.
VerticesMoreInclusive(i, v) == i <= v

\* for i := range b.V
VerticesMore(i, v) == i < v

\* A loop that takes a word from b.rand for every vertex.
VerticesLoopDrawing(c) ==
    /\ calls[c].kind = "V" /\ calls[c].pc = "loop"
    /\ LET s == calls[c] IN
        IF VerticesMore(s.i, b[1].V)
        THEN /\ \E w \in 0 .. PScale - 1 : Draw(w, 0 .. PScale - 1)
             /\ Set(c, [s EXCEPT !.label = NoLabel,
                                 !.built = Append(@, Vertex(s.i, NoLabel)),
                                 !.pc = "send"])
        ELSE /\ Set(c, [s EXCEPT !.closed = TRUE, !.pc = "done"])
             /\ UNCHANGED <<seed, rnd>>
    /\ UNCHANGED <<fvars, pc, args, b, err, run>>

\* for i := range b.V: build the vertex and block sending it; after the
\* loop, close(ch).
VerticesLoop(c) ==
    /\ calls[c].kind = "V" /\ calls[c].pc = "loop"
    /\ LET s == calls[c] IN
        IF VerticesMore(s.i, b[1].V)
        THEN IF b[1].VertexLabel
             THEN Set(c, [s EXCEPT !.label = VertexLabelFn(s.i),
                                   !.labelled = Append(@, <<s.i>>),
                                   !.built = Append(@,
                                       Vertex(s.i, VertexLabelFn(s.i))),
                                   !.pc = "send"])
             ELSE Set(c, [s EXCEPT !.label = NoLabel,
                                   !.built = Append(@, Vertex(s.i, NoLabel)),
                                   !.pc = "send"])
        ELSE Set(c, [s EXCEPT !.closed = TRUE, !.pc = "done"])
    /\ UNCHANGED <<fvars, pc, args, b, err, seed, rnd, run>>

\* The Label field left at its zero value.
VertexSentUnlabelled(s) == Vertex(s.i, NoLabel)

VertexSent(s) == Vertex(s.i, s.label)

\* A send that completes with no receiver, as on a buffered channel.
VerticesSendBuffered(c) ==
    /\ calls[c].kind = "V" /\ calls[c].pc = "send"
    /\ Set(c, [calls[c] EXCEPT !.i = @ + 1, !.pc = "loop"])
    /\ UNCHANGED <<fvars, pc, args, b, err, seed, rnd, run>>

\* ch <- Vertex{...} meets the consumer's receive.
VerticesSend(c) ==
    /\ calls[c].kind = "V" /\ calls[c].pc = "send"
    /\ calls[c].consumer = "ranging"
    /\ LET s == calls[c] IN
        Set(c, [s EXCEPT !.got = Append(@, VertexSent(s)),
                         !.i = @ + 1, !.pc = "loop"])
    /\ UNCHANGED <<fvars, pc, args, b, err, seed, rnd, run>>

----------------------------------------------------------------------------
\* The goroutine of Edges()

\* Heads starting at the tail itself.
StartAtTail(loops, tail) == IF loops THEN 0 ELSE tail

\* start of the admissible heads of tail.
Start(loops, tail) == IF loops THEN 0 ELSE tail + 1

\* The check made against a vertex that is not there.
NoHeadsPastEnd(loops, tail, v) == ~loops /\ tail = v

\* The break left out.
NoHeadsNever(loops, tail, v) == FALSE

\* No possible heads.
NoHeads(loops, tail, v) == ~loops /\ tail = v - 1

\* The loop running once too often.
TailsMoreInclusive(tail, v) == tail <= v

\* for tail := range b.V
TailsMore(tail, v) == tail < v

\* The map made once, before the loop over the tails.
MakeHeadsOnce(heads) == heads

\* heads := make(map[int]struct{}): a new, empty set for the tail.
MakeHeads(heads) == {}

\* for tail := range b.V: choose start, or break; heads := make(map).
EdgesTail(c) ==
    /\ calls[c].kind = "E" /\ calls[c].pc = "loop"
    /\ LET s == calls[c] IN
        IF TailsMore(s.tail, b[1].V) /\ ~NoHeads(b[1].Loops, s.tail, b[1].V)
        THEN Set(c, [s EXCEPT !.start = Start(b[1].Loops, s.tail),
                              !.heads = MakeHeads(@), !.trial = 0,
                              !.pc = "trial"])
        ELSE Set(c, [s EXCEPT !.closed = TRUE, !.pc = "done"])
    /\ UNCHANGED <<fvars, pc, args, b, err, seed, rnd, run>>

\* The tails taken downwards.
NextTailBack(tail) == tail - 1

\* for tail := range b.V: the tail after this one.
NextTail(tail) == tail + 1

\* The loop running once too often.
TrialsMoreInclusive(trial, n) == trial <= n

\* The loop stopping one trial early.
TrialsMoreShort(trial, n) == trial < n - 1

\* for range b.N
TrialsMore(trial, n) == trial < n

\* The comparison made non-strict.
SuccessInclusive(f, p) == f <= p

\* b.rand.Float64() < b.P
Success(f, p) == f < p

\* for range b.N: if b.rand.Float64() < b.P, go on to draw a head; after
\* the loop, the next tail.
EdgesTrial(c) ==
    /\ calls[c].kind = "E" /\ calls[c].pc = "trial"
    /\ LET s == calls[c] IN
        IF TrialsMore(s.trial, b[1].N)
        THEN \E w \in 0 .. PScale - 1 :
                /\ Draw(w, 0 .. PScale - 1)
                /\ IF Success(Float64(w), b[1].P)
                   THEN Set(c, [s EXCEPT !.draws = @ + 1, !.pc = "head"])
                   ELSE Set(c, [s EXCEPT !.draws = @ + 1, !.trial = @ + 1,
                                         !.trace = Append(@, "fail")])
        ELSE /\ Set(c, [s EXCEPT !.tail = NextTail(@), !.pc = "loop"])
             /\ UNCHANGED <<fvars, seed, rnd>>
    /\ UNCHANGED <<fvars, pc, args, b, err, run>>

\* The head without its offset.
HeadOfNoStart(start, k) == k

HeadOf(start, k) == start + k

Duplicate(multiedges, heads, head) == ~multiedges /\ head \in heads

\* The head is never recorded.
UsedForgotten(multiedges, heads, head) == heads

Used(multiedges, heads, head) ==
    IF multiedges THEN heads ELSE heads \cup {head}

\* A discarded trial run again.
ContinueRetry(trial) == trial

\* continue: on to the next iteration of for range b.N.
Continue(trial) == trial + 1

\* head := start + b.rand.IntN(b.V-start); a head already used is skipped
\* (continue); otherwise the edge is built and the goroutine blocks sending.
EdgesHead(c) ==
    /\ calls[c].kind = "E" /\ calls[c].pc = "head"
    /\ LET s == calls[c]
           n == b[1].V - s.start
       IN  /\ n > 0
           /\ \E w \in 0 .. n - 1 :
                /\ Draw(w, 0 .. n - 1)
                /\ LET head == HeadOf(s.start, IntN(w, n)) IN
                    IF Duplicate(b[1].Multiedges, s.heads, head)
                    THEN Set(c, [s EXCEPT !.draws = @ + 1,
                                          !.trial = Continue(@),
                                          !.trace = Append(@, "skip"),
                                          !.pc = "trial"])
                    ELSE IF b[1].EdgeLabel
                    THEN Set(c, [s EXCEPT
                            !.draws = @ + 1, !.head = head,
                            !.heads = Used(b[1].Multiedges, @, head),
                            !.label = EdgeLabelFn(s.id, s.tail, head),
                            !.labelled = Append(@, <<s.id, s.tail, head>>),
                            !.built = Append(@,
                                Edge(s.id, s.tail, head, b[1].Directed,
                                     EdgeLabelFn(s.id, s.tail, head))),
                            !.pc = "send"])
                    ELSE Set(c, [s EXCEPT
                            !.draws = @ + 1, !.head = head,
                            !.heads = Used(b[1].Multiedges, @, head),
                            !.label = NoLabel,
                            !.built = Append(@,
                                Edge(s.id, s.tail, head, b[1].Directed,
                                     NoLabel)),
                            !.pc = "send"])
    /\ UNCHANGED <<fvars, pc, args, b, err, run>>

\* The Directed field left at its zero value.
EdgeSentUndirected(s) == Edge(s.id, s.tail, s.head, FALSE, s.label)

EdgeSent(s) == Edge(s.id, s.tail, s.head, b[1].Directed, s.label)

\* id++ left out.
NextIDSame(id) == id

NextID(id) == id + 1

\* A send that does not wait: the element goes to a consumer that is
\* receiving and is dropped otherwise.
EdgesSendNoWait(c) ==
    /\ calls[c].kind = "E" /\ calls[c].pc = "send"
    /\ LET s == calls[c] IN
        Set(c, [s EXCEPT !.got = IF s.consumer = "ranging"
                                    THEN Append(@, EdgeSent(s)) ELSE @,
                         !.trace = Append(@, "emit"),
                         !.id = NextID(@), !.trial = @ + 1, !.pc = "trial"])
    /\ UNCHANGED <<fvars, pc, args, b, err, seed, rnd, run>>

\* ch <- Edge{...} meets the consumer's receive; then id++.
EdgesSend(c) ==
    /\ calls[c].kind = "E" /\ calls[c].pc = "send"
    /\ calls[c].consumer = "ranging"
    /\ LET s == calls[c] IN
        Set(c, [s EXCEPT !.got = Append(@, EdgeSent(s)),
                         !.trace = Append(@, "emit"),
                         !.id = NextID(@), !.trial = @ + 1, !.pc = "trial"])
    /\ UNCHANGED <<fvars, pc, args, b, err, seed, rnd, run>>

----------------------------------------------------------------------------
\* The consumer

\* for x := range ch ends when the channel is closed.
RangeEnd(c) ==
    /\ calls[c].closed
    /\ calls[c].consumer = "ranging"
    /\ Set(c, [calls[c] EXCEPT !.consumer = "done"])
    /\ UNCHANGED <<fvars, pc, args, b, err, seed, rnd, run>>

Drained(c) == calls[c].consumer = "done"

\* A second generation run with the same configuration: the random source
\* is started again from the same seed (b.rand = testRand()).
Rerun ==
    /\ pc = "ready"
    /\ run = 1
    /\ Called("V") /\ Called("E")
    /\ \A c \in DOMAIN calls : Drained(c)
    /\ run' = run + 1
    /\ rnd' = 0
    /\ UNCHANGED <<fvars, pc, args, b, err, seed, calls>>

----------------------------------------------------------------------------
Init ==
    /\ pc = "new"
    /\ args = [v |-> 0, n |-> 0, p |-> 0]
    /\ b = <<>>
    /\ err = "nil"
    /\ seed = <<>>
    /\ rnd = 0
    /\ run = 1
    /\ calls = <<>>
    /\ src = <<>>
    /\ rg = <<>>
    /\ ret = <<>>
    /\ dot = [pc |-> "idle", ch |-> 0, out |-> <<>>]

Next ==
    \/ CallNewBinomial
    \/ Configure
    \/ CallVertices
    \/ CallEdges
    \/ \E c \in DOMAIN calls : VerticesLoop(c)
    \/ \E c \in DOMAIN calls : VerticesSend(c)
    \/ \E c \in DOMAIN calls : EdgesTail(c)
    \/ \E c \in DOMAIN calls : EdgesTrial(c)
    \/ \E c \in DOMAIN calls : EdgesHead(c)
    \/ \E c \in DOMAIN calls : EdgesSend(c)
    \/ \E c \in DOMAIN calls : RangeEnd(c)

Spec == Init /\ [][Next]_vars

\* The scheduler lets every goroutine that can take a step take one, and
\* the client goes on to its next statement.
SpecLive == Init /\ [][Next]_vars /\ WF_vars(Next)

\* The client that repeats the generation run.
NextRepro ==
    \/ Next
    \/ Rerun

SpecRepro == Init /\ [][NextRepro]_vars

\* A second generation run that differs in b.Directed only, its random
\* source started again from the same seed.
RerunDirected ==
    /\ pc = "ready"
    /\ run = 1
    /\ Called("V") /\ Called("E")
    /\ \A c \in DOMAIN calls : Drained(c)
    /\ run' = run + 1
    /\ rnd' = 0
    /\ b' = << [b[1] EXCEPT !.Directed = ~@] >>
    /\ UNCHANGED <<fvars, pc, args, err, seed, calls>>

NextDirected ==
    \/ Next
    \/ RerunDirected

SpecDirected == Init /\ [][NextDirected]_vars

----------------------------------------------------------------------------
\* The test double: testSource

\* Label values: nil, the empty string and a string that is not empty.
Labels == {NoLabel, <<"">>, <<"v0">>}

\* The slices given to newTestSource: up to MaxItems elements, the vertices
\* numbered in order and the edges on a cycle, as in the tests.
TestVertices ==
    UNION {{[k \in 1 .. n |-> Vertex(k - 1, f[k])] : f \in [1 .. n -> Labels]}
           : n \in 0 .. MaxItems}

TestEdges ==
    UNION {{[k \in 1 .. n |-> Edge(k - 1, k - 1, k % n, f[k][1], f[k][2])]
            : f \in [1 .. n -> BOOLEAN \X Labels]}
           : n \in 0 .. MaxItems}

CallNewTestSource ==
    /\ pc = "new"
    /\ \E vs \in TestVertices, es \in TestEdges :
        src' = << [vertices |-> vs, edges |-> es] >>
    /\ pc' = "source"
    /\ UNCHANGED <<args, b, err, seed, rnd, run, calls, rg, ret, dot>>

\* The slice a testSource goroutine ranges over.
Items(kind) == IF kind = "TV" THEN src[1].vertices ELSE src[1].edges

\* for _, v := range src.vertices (src.edges): block sending v; after the
\* loop, close(ch).
TestSourceLoop(c) ==
    /\ calls[c].kind \in {"TV", "TE"} /\ calls[c].pc = "loop"
    /\ LET s == calls[c] IN
        IF s.i < Len(Items(s.kind))
        THEN Set(c, [s EXCEPT !.built = Append(@, Items(s.kind)[s.i + 1]),
                              !.pc = "send"])
        ELSE Set(c, [s EXCEPT !.closed = TRUE, !.pc = "done"])
    /\ UNCHANGED <<fvars, pc, args, b, err, seed, rnd, run>>

----------------------------------------------------------------------------
\* RandGraph

\* New(src)
CallNew ==
    /\ pc = "source"
    /\ rg' = << [src |-> src[1]] >>
    /\ pc' = "facade"
    /\ UNCHANGED <<args, b, err, seed, rnd, run, calls, src, ret, dot>>

\* The operation of the source called for the other one.
DelegateSwapped(op) == IF op = "Vertices" THEN "TE" ELSE "TV"

\* r.src.Vertices() for Vertices, r.src.Edges() for Edges.
Delegate(op) == IF op = "Vertices" THEN "TV" ELSE "TE"

\* RandGraph.Vertices / RandGraph.Edges, called by `by` when the calls made
\* are cs: one call of the source, whose channel is returned.
RandGraphCall(op, by, cs) ==
    /\ calls' = Append(cs, NewCall(Delegate(op)))
    /\ ret' = Append(ret, [op |-> op, by |-> by, ch |-> Len(cs) + 1])

Holder(c) == {k \in DOMAIN ret : ret[k].ch = c}

\* The client calls r.Vertices() or r.Edges() and ranges over the result.
ClientCall(op) ==
    /\ pc = "facade"
    /\ dot.pc = "idle"
    /\ \A k \in DOMAIN ret : ret[k].op # op
    /\ RandGraphCall(op, "client", calls)
    /\ UNCHANGED <<pc, args, b, err, seed, rnd, run, src, rg, dot>>

ClientRangeEnd(c) ==
    /\ \E k \in Holder(c) : ret[k].by = "client"
    /\ RangeEnd(c)

----------------------------------------------------------------------------
\* WriteDOT

\* fmt.Sprint of a label that holds a string.
Sprint(l) == l[1]

LabelText(l) == IF l = NoLabel THEN "" ELSE Sprint(l)

\* The two directions exchanged.
DirSwapped(directed) == IF directed THEN "none" ELSE "forward"

Dir(directed) == IF directed THEN "forward" ELSE "none"

\* %q of a string without characters to escape.
Quote(str) == <<"\"", str, "\"">>

OpenLine == [line |-> "digraph {"]
CloseLine == [line |-> "}"]
VertexLine(v) ==
    [line |-> "vertex", id |-> v.ID, label |-> Quote(LabelText(v.Label))]
EdgeLine(e) ==
    [line |-> "edge", v0 |-> e.V0, v1 |-> e.V1, dir |-> Quote(Dir(e.Directed)),
     label |-> Quote(LabelText(e.Label))]

\* The line WriteDOT prints for an element received.
LineOf(kind, x) == IF kind = "TV" THEN VertexLine(x) ELSE EdgeLine(x)

\* ch <- v of a testSource goroutine meets the receive of the range loop
\* that holds the channel: the client's, or WriteDOT's, which prints.
TestSourceSend(c) ==
    /\ calls[c].kind \in {"TV", "TE"} /\ calls[c].pc = "send"
    /\ calls[c].consumer = "ranging"
    /\ Holder(c) # {}
    /\ LET s == calls[c]
           x == Items(s.kind)[s.i + 1]
       IN  /\ Set(c, [s EXCEPT !.got = Append(@, x), !.i = @ + 1,
                               !.pc = "loop"])
           /\ dot' = IF dot.ch = c
                     THEN [dot EXCEPT !.out = Append(@, LineOf(s.kind, x))]
                     ELSE dot
    /\ UNCHANGED <<pc, args, b, err, seed, rnd, run, src, rg, ret>>

\* fmt.Fprintln(w, "digraph {"); for v := range r.Vertices()
WriteDOTBegin ==
    /\ pc = "facade"
    /\ dot.pc = "idle"
    /\ ret = <<>>
    /\ RandGraphCall("Vertices", "WriteDOT", calls)
    /\ dot' = [pc |-> "vertices", ch |-> Len(calls) + 1, out |-> <<OpenLine>>]
    /\ UNCHANGED <<pc, args, b, err, seed, rnd, run, src, rg>>

\* The loop over the vertices left before their channel is closed.
StreamEndedAlways(c) == TRUE

\* A range loop ends when its channel is closed.
StreamEnded(c) == calls[c].closed

\* The loop over the vertices ends; for e := range r.Edges()
WriteDOTEdges ==
    /\ dot.pc = "vertices"
    /\ StreamEnded(dot.ch)
    /\ RandGraphCall("Edges", "WriteDOT",
                     [calls EXCEPT ![dot.ch].consumer = "done"])
    /\ dot' = [dot EXCEPT !.pc = "edges", !.ch = Len(calls) + 1]
    /\ UNCHANGED <<pc, args, b, err, seed, rnd, run, src, rg>>

\* The loop over the edges ends; fmt.Fprintln(w, "}")
WriteDOTEnd ==
    /\ dot.pc = "edges"
    /\ StreamEnded(dot.ch)
    /\ Set(dot.ch, [calls[dot.ch] EXCEPT !.consumer = "done"])
    /\ dot' = [dot EXCEPT !.pc = "returned", !.ch = 0,
                          !.out = Append(@, CloseLine)]
    /\ UNCHANGED <<pc, args, b, err, seed, rnd, run, src, rg, ret>>

NextFacade ==
    \/ CallNewTestSource
    \/ CallNew
    \/ \E op \in {"Vertices", "Edges"} : ClientCall(op)
    \/ \E c \in DOMAIN calls : TestSourceLoop(c)
    \/ \E c \in DOMAIN calls : TestSourceSend(c)
    \/ \E c \in DOMAIN calls : ClientRangeEnd(c)
    \/ WriteDOTBegin
    \/ WriteDOTEdges
    \/ WriteDOTEnd

SpecFacade == Init /\ [][NextFacade]_vars

----------------------------------------------------------------------------
\* A client that leaves a range loop early

\* The client sets Multiedges and leaves the other fields as NewBinomial
\* returned them.
ConfigureMultiedges ==
    /\ pc = "constructed"
    /\ err = "nil"
    /\ \E multiedges \in BOOLEAN :
        b' = << [b[1] EXCEPT !.Multiedges = multiedges] >>
    /\ pc' = "ready"
    /\ UNCHANGED <<fvars, args, err, seed, rnd, run, calls>>

\* The client calls b.Vertices() or b.Edges(), a first time and, once it
\* has left the range loop over the first stream, a second time.
CallEither(kind) ==
    /\ pc = "ready"
    /\ Len(calls) <= 1
    /\ \A c \in DOMAIN calls : calls[c].consumer # "ranging"
    /\ calls' = Append(calls, NewCall(kind))
    /\ UNCHANGED <<fvars, pc, args, b, err, seed, rnd, run>>

\* break in the body of for x := range ch, which runs once an element has
\* been received: the consumer receives no more.
Abandon(c) ==
    /\ calls[c].consumer = "ranging"
    /\ Len(calls[c].got) >= 1
    /\ Set(c, [calls[c] EXCEPT !.consumer = "abandoned"])
    /\ UNCHANGED <<fvars, pc, args, b, err, seed, rnd, run>>

\* A step of the goroutine of call c.
ProducerStep(c) ==
    \/ VerticesLoop(c)
    \/ VerticesSend(c)
    \/ EdgesTail(c)
    \/ EdgesTrial(c)
    \/ EdgesHead(c)
    \/ EdgesSend(c)

NextAbandon ==
    \/ CallNewBinomial
    \/ ConfigureMultiedges
    \/ \E kind \in {"V", "E"} : CallEither(kind)
    \/ \E c \in DOMAIN calls : Abandon(c)
    \/ \E c \in DOMAIN calls : VerticesLoop(c)
    \/ \E c \in DOMAIN calls : VerticesSend(c)
    \/ \E c \in DOMAIN calls : EdgesTail(c)
    \/ \E c \in DOMAIN calls : EdgesTrial(c)
    \/ \E c \in DOMAIN calls : EdgesHead(c)
    \/ \E c \in DOMAIN calls : EdgesSend(c)
    \/ \E c \in DOMAIN calls : RangeEnd(c)

SpecAbandon == Init /\ [][NextAbandon]_vars

----------------------------------------------------------------------------
\* A client that uses one generator from two goroutines

\* The client calls b.Vertices() or b.Edges() twice in the first run, the
\* second call at any time: before, while or after the first stream is
\* consumed.
CallShared(kind) ==
    /\ pc = "ready"
    /\ run = 1
    /\ Len(calls) <= 1
    /\ calls' = Append(calls, NewCall(kind))
    /\ UNCHANGED <<fvars, pc, args, b, err, seed, rnd, run>>

\* Both streams are consumed to their end; the random source is put back
\* to its starting state for a second run.
RerunAlone ==
    /\ pc = "ready"
    /\ run = 1
    /\ Len(calls) = 2
    /\ \A c \in DOMAIN calls : Drained(c)
    /\ run' = run + 1
    /\ rnd' = 0
    /\ UNCHANGED <<fvars, pc, args, b, err, seed, calls>>

\* In the second run the client makes one call, with nothing else running.
CallAlone(kind) ==
    /\ pc = "ready"
    /\ run = 2
    /\ \A c \in DOMAIN calls : calls[c].run = 1
    /\ calls' = Append(calls, NewCall(kind))
    /\ UNCHANGED <<fvars, pc, args, b, err, seed, rnd, run>>

NextShared ==
    \/ CallNewBinomial
    \/ ConfigureMultiedges
    \/ \E kind \in {"V", "E"} : CallShared(kind)
    \/ RerunAlone
    \/ \E kind \in {"V", "E"} : CallAlone(kind)
    \/ \E c \in DOMAIN calls : VerticesLoop(c)
    \/ \E c \in DOMAIN calls : VerticesSend(c)
    \/ \E c \in DOMAIN calls : EdgesTail(c)
    \/ \E c \in DOMAIN calls : EdgesTrial(c)
    \/ \E c \in DOMAIN calls : EdgesHead(c)
    \/ \E c \in DOMAIN calls : EdgesSend(c)
    \/ \E c \in DOMAIN calls : RangeEnd(c)

SpecShared == Init /\ [][NextShared]_vars

----------------------------------------------------------------------------
\* Properties

B == b[1]
VCalls == {c \in DOMAIN calls : calls[c].kind = "V"}
ECalls == {c \in DOMAIN calls : calls[c].kind = "E"}
Ready == pc = "ready"

\* C1: a fully drained Vertices() stream delivered exactly V vertices with
\* IDs 0, 1, ..., V-1 in that order; before its end it has delivered a
\* prefix of them.
C1_VerticesAreZeroToV ==
    Ready => \A c \in VCalls :
        /\ \A k \in 1 .. Len(calls[c].got) : calls[c].got[k].ID = k - 1
        /\ Len(calls[c].got) <= B.V
        /\ calls[c].closed => Len(calls[c].got) = B.V
        /\ Drained(c) => calls[c].closed

C1_Witness ==
    /\ Ready
    /\ \E c \in VCalls : Drained(c) /\ Len(calls[c].got) >= 2

\* C2: with Loops false no delivered edge has V0 = V1.
C2_NoLoops ==
    (Ready /\ ~B.Loops) => \A c \in ECalls :
        \A k \in 1 .. Len(calls[c].got) :
            calls[c].got[k].V0 # calls[c].got[k].V1

C2_Witness ==
    /\ Ready /\ ~B.Loops /\ B.Multiedges
    /\ \E c \in ECalls : Drained(c) /\ Len(calls[c].got) >= 2

\* C3: with Multiedges false no two edges delivered by one Edges() run have
\* the same V0 and the same V1.
C3_NoMultiedges ==
    (Ready /\ ~B.Multiedges) => \A c \in ECalls :
        \A j, k \in 1 .. Len(calls[c].got) :
            (j < k) => ~ (/\ calls[c].got[j].V0 = calls[c].got[k].V0
                          /\ calls[c].got[j].V1 = calls[c].got[k].V1)

\* A run in which a trial drew a head already used, and was discarded.
C3_Witness ==
    /\ Ready /\ ~B.Multiedges
    /\ \E c \in ECalls :
        /\ Drained(c)
        /\ \E t \in 1 .. Len(calls[c].trace) : calls[c].trace[t] = "skip"

\* The admissible heads of tail.
Admissible(tail) ==
    IF B.Loops THEN 0 .. B.V - 1 ELSE tail + 1 .. B.V - 1

\* C4: every delivered edge has its tail in [0, V) and its head in the
\* admissible range of its tail, so its head is in [0, V) and, with Loops
\* false, above its tail.
C4_HeadsAdmissible ==
    Ready => \A c \in ECalls :
        \A k \in 1 .. Len(calls[c].got) :
            LET e == calls[c].got[k] IN
                /\ e.V0 \in 0 .. B.V - 1
                /\ e.V1 \in Admissible(e.V0)
                /\ e.V1 \in 0 .. B.V - 1
                /\ ~B.Loops => e.V1 > e.V0

\* Loops false and the last tail that has heads has delivered an edge.
C4_Witness ==
    /\ Ready /\ ~B.Loops /\ B.V >= 2
    /\ \E c \in ECalls : \E k \in 1 .. Len(calls[c].got) :
        calls[c].got[k].V0 = B.V - 2 /\ calls[c].got[k].V1 = B.V - 1

\* C5: the k-th delivered edge, counting from 0, has ID k, whatever trials
\* failed or were discarded before it.
C5_EdgeIDsCount ==
    Ready => \A c \in ECalls :
        \A k \in 1 .. Len(calls[c].got) : calls[c].got[k].ID = k - 1

\* An edge delivered after a failed trial and a discarded one.
C5_Witness ==
    /\ Ready
    /\ \E c \in ECalls :
        LET t == calls[c].trace IN
            \E i, j, k \in 1 .. Len(t) :
                /\ i < k /\ j < k
                /\ t[i] = "fail" /\ t[j] = "skip" /\ t[k] = "emit"
                /\ t[1] = "emit"

\* C6: NewBinomial returns nil and an error exactly when v < 0, n < 0,
\* p < 0 or p > 1, and otherwise a generator holding v, n, p with every
\* flag false, and a nil error.
C6_NewBinomialValidates ==
    pc = "constructed" =>
        IF args.v < 0 \/ args.n < 0 \/ args.p < 0 \/ args.p > PScale
        THEN b = <<>> /\ err # "nil"
        ELSE /\ err = "nil"
             /\ Len(b) = 1
             /\ b[1].V = args.v /\ b[1].N = args.n /\ b[1].P = args.p
             /\ ~b[1].Loops /\ ~b[1].Multiedges /\ ~b[1].Directed

\* Only p is out of range, just above 1.
C6_Witness ==
    /\ pc = "constructed"
    /\ args.v >= 0 /\ args.n >= 0 /\ args.p = PScale + 1
    /\ b = <<>> /\ err # "nil"

IsPrefix(s, t) ==
    /\ Len(s) <= Len(t)
    /\ \A k \in 1 .. Len(s) : s[k] = t[k]

\* C7: a second run with the same configuration and the same random
\* stream delivers the elements of the first, one by one: at every moment
\* a prefix of them, and all of them once drained.
C7_RunsAgree ==
    \A c1, c2 \in DOMAIN calls :
        (/\ calls[c1].kind = calls[c2].kind
         /\ calls[c1].run = 1 /\ calls[c2].run = 2) =>
            /\ IsPrefix(calls[c2].got, calls[c1].got)
            /\ Drained(c2) => calls[c2].got = calls[c1].got

\* Both runs drained, with a failed trial, and two edges to compare.
C7_Witness ==
    \E c1, c2 \in ECalls :
        /\ calls[c1].run = 1 /\ calls[c2].run = 2
        /\ Drained(c2)
        /\ Len(calls[c2].got) >= 2
        /\ \E t \in 1 .. Len(calls[c2].trace) : calls[c2].trace[t] = "fail"
        /\ \A v \in VCalls : Drained(v) /\ Len(calls[v].got) >= 2

\* C8: with V = 0 neither stream delivers an element, both end, and no
\* random draw is made.
C8_OrderZero ==
    (Ready /\ B.V = 0) =>
        /\ seed = <<>> /\ rnd = 0
        /\ \A c \in DOMAIN calls :
            /\ calls[c].got = <<>>
            /\ calls[c].draws = 0
            /\ \/ calls[c].pc = "loop" /\ ~calls[c].closed
               \/ calls[c].pc = "done" /\ calls[c].closed

C8_Witness ==
    /\ Ready /\ B.V = 0 /\ B.N > 0 /\ B.P = PScale /\ B.Loops
    /\ VCalls # {} /\ ECalls # {}
    /\ \A c \in DOMAIN calls : Drained(c)

\* C9: with N = 0 or P = 0 the vertices are all delivered, and no trial
\* succeeds: no edge is built or delivered, and the stream ends.
C9_Edgeless ==
    (Ready /\ (B.N = 0 \/ B.P = 0)) =>
        /\ \A c \in VCalls : Drained(c) => Len(calls[c].got) = B.V
        /\ \A c \in ECalls :
            /\ calls[c].got = <<>>
            /\ calls[c].pc \in {"loop", "trial", "done"}
            /\ \A t \in 1 .. Len(calls[c].trace) : calls[c].trace[t] = "fail"
            /\ Drained(c) => calls[c].closed

\* P = 0 and every trial of two tails has drawn, and failed.
C9_Witness ==
    /\ Ready /\ B.P = 0 /\ B.Loops /\ B.V >= 2 /\ B.N >= 2
    /\ \E c \in ECalls : Drained(c) /\ calls[c].draws = B.V * B.N
    /\ \E c \in VCalls : Len(calls[c].got) = B.V

\* The number of edges of a run in which every trial delivers one.
AllTrials == IF B.Loops THEN B.V * B.N
             ELSE IF B.V >= 1 THEN (B.V - 1) * B.N ELSE 0

\* C10: with P = 1 and Multiedges true every trial delivers an edge: a
\* drained run has V*N edges with Loops true, (V-1)*N with Loops false
\* and V >= 1.
C10_AllTrialsEmit ==
    (Ready /\ B.P = PScale /\ B.Multiedges) => \A c \in ECalls :
        /\ \A t \in 1 .. Len(calls[c].trace) : calls[c].trace[t] = "emit"
        /\ Len(calls[c].got) <= AllTrials
        /\ calls[c].closed => Len(calls[c].got) = AllTrials

C10_Witness ==
    /\ Ready /\ B.P = PScale /\ B.Multiedges /\ B.Loops
    /\ B.V >= 2 /\ B.N >= 2
    /\ \E c \in ECalls : Drained(c) /\ Len(calls[c].got) = B.V * B.N

\* C11: with Loops false the last vertex is never a tail: on reaching it
\* the goroutine stops without a trial or a draw, so no run draws for more
\* than V-1 tails, and V = 1 delivers nothing.
C11_LastVertexNoTail ==
    (Ready /\ ~B.Loops /\ B.V >= 1) => \A c \in ECalls :
        /\ \A k \in 1 .. Len(calls[c].got) : calls[c].got[k].V0 # B.V - 1
        /\ calls[c].tail >= B.V - 1 => calls[c].pc \in {"loop", "done"}
        /\ calls[c].tail <= B.V - 1
        /\ Len(calls[c].trace) <= (B.V - 1) * B.N
        /\ B.V = 1 => calls[c].got = <<>> /\ calls[c].draws = 0

\* The run stopped at the last vertex after the trials of the tails before.
C11_Witness ==
    /\ Ready /\ ~B.Loops /\ B.V >= 2 /\ B.N >= 1
    /\ \E c \in ECalls :
        /\ calls[c].pc = "done" /\ calls[c].tail = B.V - 1
        /\ Len(calls[c].trace) = (B.V - 1) * B.N
        /\ Len(calls[c].got) >= 1

\* The Directed flag of the run that call c belongs to.
DirectedOf(c) == IF calls[c].run = run THEN B.Directed ELSE ~B.Directed

Endpoints(e) == <<e.ID, e.V0, e.V1>>

\* C12: every delivered edge carries the Directed flag of its generator,
\* and the run with the flag inverted delivers, from the same random
\* stream, the same (ID, V0, V1) one by one.
C12_DirectedOnlyTags ==
    Ready =>
        /\ \A c \in ECalls : \A k \in 1 .. Len(calls[c].got) :
            calls[c].got[k].Directed = DirectedOf(c)
        /\ \A c1, c2 \in ECalls :
            (calls[c1].run = 1 /\ calls[c2].run = 2) =>
                /\ Len(calls[c2].got) <= Len(calls[c1].got)
                /\ \A k \in 1 .. Len(calls[c2].got) :
                    Endpoints(calls[c2].got[k]) = Endpoints(calls[c1].got[k])
                /\ Drained(c2) => Len(calls[c2].got) = Len(calls[c1].got)

\* Both runs drained, the first directed and the second not.
C12_Witness ==
    /\ Ready /\ ~B.Directed
    /\ \E c1, c2 \in ECalls :
        /\ calls[c1].run = 1 /\ calls[c2].run = 2
        /\ Drained(c2)
        /\ Len(calls[c2].got) >= 2
        /\ calls[c1].got[1].Directed /\ ~calls[c2].got[1].Directed

\* C13: a delivered vertex carries VertexLabel(ID) and a delivered edge
\* EdgeLabel(ID, V0, V1), or no label when the function is not set; the
\* function is invoked once for each element built, with that element's
\* own arguments, and never for a failed or discarded trial.
C13_Labels ==
    Ready =>
        /\ \A c \in VCalls :
            /\ \A k \in 1 .. Len(calls[c].got) :
                calls[c].got[k].Label =
                    IF B.VertexLabel THEN VertexLabelFn(calls[c].got[k].ID)
                    ELSE NoLabel
            /\ Len(calls[c].labelled) =
                    IF B.VertexLabel THEN Len(calls[c].built) ELSE 0
            /\ \A k \in 1 .. Len(calls[c].labelled) :
                calls[c].labelled[k] = <<calls[c].built[k].ID>>
            /\ calls[c].closed => Len(calls[c].built) = Len(calls[c].got)
        /\ \A c \in ECalls :
            /\ \A k \in 1 .. Len(calls[c].got) :
                LET e == calls[c].got[k] IN
                    e.Label = IF B.EdgeLabel
                              THEN EdgeLabelFn(e.ID, e.V0, e.V1) ELSE NoLabel
            /\ Len(calls[c].labelled) =
                    IF B.EdgeLabel THEN Len(calls[c].built) ELSE 0
            /\ \A k \in 1 .. Len(calls[c].labelled) :
                calls[c].labelled[k] = Endpoints(calls[c].built[k])
            /\ calls[c].closed => Len(calls[c].built) = Len(calls[c].got)

\* Both functions set; a run with a failed and a discarded trial.
C13_Witness ==
    /\ Ready /\ B.VertexLabel /\ B.EdgeLabel
    /\ \E c \in VCalls : Len(calls[c].got) >= 2
    /\ \E c \in ECalls :
        /\ Drained(c) /\ Len(calls[c].got) >= 2
        /\ \E i, j \in 1 .. Len(calls[c].trace) :
            calls[c].trace[i] = "fail" /\ calls[c].trace[j] = "skip"

C18_Backpressure ==
    \A c \in DOMAIN calls :
        /\ IsPrefix(calls[c].got, calls[c].built)
        /\ Len(calls[c].built) =
                Len(calls[c].got) + (IF calls[c].pc = "send" THEN 1 ELSE 0)

\* The producer is blocked on its second element.
C18_Witness ==
    \E c \in DOMAIN calls :
        /\ calls[c].pc = "send"
        /\ Len(calls[c].got) = 1 /\ Len(calls[c].built) = 2

\* The slice of the source that a facade operation stands for.
Produced(op) == IF op = "Vertices" THEN src[1].vertices ELSE src[1].edges

SourceKind(op) == IF op = "Vertices" THEN "TV" ELSE "TE"

\* C14: what a consumer receives from RandGraph.Vertices() or Edges() is
\* what the source produces, in order and to the same end, and every
\* facade call is one call of the same operation of the source.
C14_FacadePassesThrough ==
    /\ Len(calls) = Len(ret)
    /\ \A k \in DOMAIN ret :
        LET c == ret[k].ch IN
            /\ c = k
            /\ calls[c].kind = SourceKind(ret[k].op)
            /\ IsPrefix(calls[c].got, Produced(ret[k].op))
            /\ IsPrefix(calls[c].got, calls[c].built)
            /\ calls[c].closed => calls[c].got = Produced(ret[k].op)
            /\ Drained(c) => calls[c].closed

\* The client has drained both streams, of two elements each.
C14_Witness ==
    /\ Len(ret) = 2
    /\ \A k \in DOMAIN ret :
        /\ ret[k].by = "client"
        /\ Drained(ret[k].ch)
        /\ Len(calls[ret[k].ch].got) = 2

WriteDOTCalls(op) ==
    {k \in DOMAIN ret : ret[k].by = "WriteDOT" /\ ret[k].op = op}

\* The lines of a whole WriteDOT output.
ExpectedOut ==
    <<OpenLine>>
    \o [k \in 1 .. Len(src[1].vertices) |-> VertexLine(src[1].vertices[k])]
    \o [k \in 1 .. Len(src[1].edges) |-> EdgeLine(src[1].edges[k])]
    \o <<CloseLine>>

\* C15: WriteDOT calls Vertices() once and Edges() once, Edges() only after
\* the vertex stream was drained to its end; when it returns both streams
\* are drained, no producer is blocked, and the output is the opening
\* line, the vertex lines in order, the edge lines in order, the closing
\* line.
C15_WriteDOTOrder ==
    dot.pc # "idle" =>
        /\ Cardinality(WriteDOTCalls("Vertices")) = 1
        /\ Cardinality(WriteDOTCalls("Edges")) =
                IF dot.pc = "vertices" THEN 0 ELSE 1
        /\ \A j \in WriteDOTCalls("Vertices"), k \in WriteDOTCalls("Edges") :
            /\ j < k
            /\ calls[ret[j].ch].closed /\ Drained(ret[j].ch)
            /\ calls[ret[j].ch].got = src[1].vertices
        /\ IsPrefix(dot.out, ExpectedOut)
        /\ dot.pc = "returned" =>
            /\ dot.out = ExpectedOut
            /\ \A c \in DOMAIN calls :
                calls[c].pc = "done" /\ calls[c].closed /\ Drained(c)

\* WriteDOT has returned, with two vertices and two edges written.
C15_Witness ==
    /\ dot.pc = "returned"
    /\ Len(dot.out) = 6
    /\ Len(src[1].vertices) = 2 /\ Len(src[1].edges) = 2

\* The element that line k of the output was printed for.
VertexOfLine(k) == src[1].vertices[k - 1]
EdgeOfLine(k) == src[1].edges[k - 1 - Len(src[1].vertices)]

VertexLines == {k \in DOMAIN dot.out : dot.out[k].line = "vertex"}
EdgeLines == {k \in DOMAIN dot.out : dot.out[k].line = "edge"}

EmptyQuoted == <<"\"", "", "\"">>

\* C16 as first stated: the label of a line is the empty string exactly
\* when the element has no label.
C16_EmptyOnlyIfAbsent ==
    /\ \A k \in VertexLines :
        (dot.out[k].label = EmptyQuoted) <=> (VertexOfLine(k).Label = NoLabel)
    /\ \A k \in EdgeLines :
        (dot.out[k].label = EmptyQuoted) <=> (EdgeOfLine(k).Label = NoLabel)

\* C16: an edge line has dir "forward" exactly when the edge is directed
\* and "none" otherwise; a line has the empty string as its label when the
\* element has no label, and otherwise the display form of the label,
\* which is the empty string too when the label is the empty string.
C16_DirAndLabel ==
    /\ \A k \in VertexLines :
        LET v == VertexOfLine(k) IN
            /\ dot.out[k].id = v.ID
            /\ v.Label = NoLabel => dot.out[k].label = EmptyQuoted
            /\ v.Label # NoLabel =>
                    dot.out[k].label = <<"\"", v.Label[1], "\"">>
    /\ \A k \in EdgeLines :
        LET e == EdgeOfLine(k) IN
            /\ dot.out[k].v0 = e.V0 /\ dot.out[k].v1 = e.V1
            /\ e.Directed <=> dot.out[k].dir = <<"\"", "forward", "\"">>
            /\ ~e.Directed <=> dot.out[k].dir = <<"\"", "none", "\"">>
            /\ e.Label = NoLabel => dot.out[k].label = EmptyQuoted
            /\ e.Label # NoLabel =>
                    dot.out[k].label = <<"\"", e.Label[1], "\"">>

\* An unlabelled vertex, a vertex labelled with the empty string, a
\* directed edge and an undirected labelled one, all written.
C16_Witness ==
    /\ dot.pc = "returned"
    /\ \E j, k \in VertexLines :
        VertexOfLine(j).Label = NoLabel /\ VertexOfLine(k).Label = <<"">>
    /\ \E j, k \in EdgeLines :
        /\ EdgeOfLine(j).Directed
        /\ ~EdgeOfLine(k).Directed /\ EdgeOfLine(k).Label = <<"v0">>

\* C19: a producer whose consumer has stopped pulling, and which has
\* reached its next emission, has a way on: some step of its goroutine can
\* be taken from there, so it does not stay blocked on the send for ever.
C19_AbandonedCanGoOn ==
    \A c \in DOMAIN calls :
        (calls[c].consumer = "abandoned" /\ calls[c].pc = "send")
            => ENABLED ProducerStep(c)

\* Every stream delivered so far is well formed: vertices 0 .. V-1 in
\* order, edge IDs counting from 0, heads admissible, no repeated pair with
\* Multiedges false, and a consumer that saw the end saw a closed stream.
WellFormed ==
    /\ C1_VerticesAreZeroToV
    /\ C3_NoMultiedges
    /\ C4_HeadsAdmissible
    /\ C5_EdgeIDsCount
    /\ \A c \in DOMAIN calls : Drained(c) => calls[c].closed

\* C20: once the consumer of a stream has abandoned it, its producer draws
\* no further word from the random source, and every stream delivered,
\* those of later calls included, stays well formed.
C20_AbandonedDrawsNoMore ==
    [][/\ \A c \in DOMAIN calls :
            calls[c].consumer = "abandoned"
                => calls'[c].draws = calls[c].draws
       /\ WellFormed']_vars


\* C24: whenever an Edges() goroutine is in the trials of a tail, about to
\* draw a head or holding one, the bound V - start it passes to IntN is at
\* least 1: start is 0 and V >= 1 with Loops, and tail + 1 <= V - 1
\* without.
C24_HeadBoundPositive ==
    Ready => \A c \in ECalls :
        calls[c].pc \in {"trial", "head", "send"} =>
            /\ B.V - calls[c].start >= 1
            /\ IF B.Loops
               THEN calls[c].start = 0 /\ B.V >= 1
               ELSE /\ calls[c].start = calls[c].tail + 1
                    /\ calls[c].start <= B.V - 1

\* A head is about to be drawn from a range of one, with Loops false.
C24_Witness ==
    /\ Ready /\ ~B.Loops
    /\ \E c \in ECalls :
        calls[c].pc = "head" /\ B.V - calls[c].start = 1


\* The edges of tail t delivered by call c, as positions in its stream.
EdgesOfTail(c, t) ==
    {k \in 1 .. Len(calls[c].got) : calls[c].got[k].V0 = t}

Min(x, y) == IF x <= y THEN x ELSE y

\* C25: a tail with admissible heads gets exactly N trials, each failed,
\* discarded or emitting: the trials run so far are N for every finished
\* tail plus those of the current one, never more than N. A tail delivers
\* at most N edges; with Multiedges false at most min(N, number of its
\* admissible heads), as many as the distinct heads its successful trials
\* drew.
C25_TrialsPerTail ==
    Ready => \A c \in ECalls :
        LET s == calls[c] IN
            /\ s.pc \in {"trial", "head", "send"} =>
                /\ Len(s.trace) = B.N * s.tail + s.trial
                /\ s.trial <= B.N
                /\ s.pc # "trial" => s.trial < B.N
            /\ s.pc = "loop" => Len(s.trace) = B.N * s.tail
            /\ s.pc = "done" => Len(s.trace) = AllTrials
            /\ \A t \in 0 .. B.V - 1 :
                /\ Cardinality(EdgesOfTail(c, t)) <= B.N
                /\ ~B.Multiedges =>
                    Cardinality(EdgesOfTail(c, t))
                        <= Min(B.N, Cardinality(Admissible(t)))
            /\ (~B.Multiedges /\ s.pc \in {"trial", "head"}) =>
                Cardinality(EdgesOfTail(c, s.tail)) = Cardinality(s.heads)
            /\ (~B.Multiedges /\ s.pc = "send") =>
                Cardinality(EdgesOfTail(c, s.tail)) + 1 = Cardinality(s.heads)

\* A tail whose N >= 2 trials are all run, one of them discarded, so that
\* it delivered fewer than N edges.
C25_Witness ==
    /\ Ready /\ ~B.Multiedges /\ B.N >= 2
    /\ \E c \in ECalls :
        /\ calls[c].pc = "trial" /\ calls[c].trial = B.N
        /\ \E j \in 1 .. Len(calls[c].trace) : calls[c].trace[j] = "skip"
        /\ Cardinality(EdgesOfTail(c, calls[c].tail)) < B.N


\* C26: the used-heads set belongs to the current tail: it is empty when
\* the tail's trials start and holds exactly the heads of the edges built
\* for this tail (none with Multiedges true), so a head is discarded as a
\* duplicate only against edges with the same V0.
C26_HeadsPerTail ==
    Ready => \A c \in ECalls :
        LET s == calls[c] IN
            s.pc \in {"trial", "head", "send"} =>
                /\ s.trial = 0 /\ s.pc # "send" => s.heads = {}
                /\ B.Multiedges => s.heads = {}
                /\ ~B.Multiedges =>
                    s.heads =
                        {s.got[k].V1 : k \in EdgesOfTail(c, s.tail)}
                            \cup (IF s.pc = "send" THEN {s.head} ELSE {})

\* With Loops true and Multiedges false one run delivered a->b and b->a,
\* and two edges with different tails and the same head.
C26_Witness ==
    /\ Ready /\ B.Loops /\ ~B.Multiedges
    /\ \E c \in ECalls :
        LET g == calls[c].got IN
            /\ Drained(c)
            /\ \E i, j \in 1 .. Len(g) :
                /\ g[i].V0 # g[i].V1
                /\ g[j].V0 = g[i].V1 /\ g[j].V1 = g[i].V0
            /\ \E i, j \in 1 .. Len(g) :
                /\ g[i].V0 < g[j].V0
                /\ g[i].V1 = g[j].V1


\* The trials of call c that delivered an edge, as positions in its trace.
Emits(c) == {j \in 1 .. Len(calls[c].trace) : calls[c].trace[j] = "emit"}

\* The trial that delivered the k-th edge of call c.
EmitAt(c, k) ==
    CHOOSE j \in Emits(c) : Cardinality({i \in Emits(c) : i <= j}) = k

\* C27: the V0 of successive delivered edges never decreases; the k-th
\* delivered edge comes from the k-th trial that emitted, and its V0 is the
\* tail that trial belongs to (trials are run tail by tail, N to a tail);
\* edges are delivered in the order they were built.
C27_TailOrder ==
    Ready => \A c \in ECalls :
        LET g == calls[c].got IN
            /\ \A k \in 1 .. Len(g) - 1 : g[k].V0 <= g[k + 1].V0
            /\ Cardinality(Emits(c)) = Len(g)
            /\ \A k \in 1 .. Len(g) :
                /\ B.N > 0
                /\ g[k].V0 = (EmitAt(c, k) - 1) \div B.N
            /\ IsPrefix(g, calls[c].built)

\* A drained run with two edges of one tail and an edge of a later tail.
C27_Witness ==
    /\ Ready
    /\ \E c \in ECalls :
        LET g == calls[c].got IN
            /\ Drained(c)
            /\ \E k \in 1 .. Len(g) - 1 : g[k].V0 = g[k + 1].V0
            /\ \E k \in 1 .. Len(g) - 1 : g[k].V0 < g[k + 1].V0


\* The most elements a stream of this kind can hold.
MaxElements(kind) == IF kind = "V" THEN B.V ELSE B.V * B.N

\* C23: with a consumer that keeps receiving, every call made ends with
\* its stream closed; a stream holds at most V vertices or V*N edges; it is
\* closed by a goroutine that has finished, after every element built was
\* received; once closed it stays closed and delivers nothing more.
C23_ProducersTerminate ==
    /\ [](Ready => \A c \in DOMAIN calls :
            /\ Len(calls[c].got) <= MaxElements(calls[c].kind)
            /\ calls[c].closed =>
                /\ calls[c].pc = "done"
                /\ calls[c].got = calls[c].built)
    /\ [][\A c \in DOMAIN calls :
            calls[c].closed =>
                /\ calls'[c].closed
                /\ calls'[c].pc = "done"
                /\ calls'[c].got = calls[c].got]_vars
    /\ \A c \in 1 .. 2 :
        (Len(calls) >= c) ~> (Len(calls) >= c /\ calls[c].closed)

\* Both streams are closed, the one of Edges() after V*N >= 2 edges.
C23_Witness ==
    /\ Ready /\ B.V * B.N >= 2
    /\ \E v \in VCalls : calls[v].closed /\ Len(calls[v].got) = B.V
    /\ \E c \in ECalls : calls[c].closed /\ Len(calls[c].got) = B.V * B.N


\* C22: a producer whose consumer has stopped receiving while an element
\* it built is still to be handed over is at its send, its stream not
\* closed, with no step it can take; and from there its state never
\* changes again, so it neither terminates nor closes the stream.
C22_AbandonedStaysBlocked ==
    /\ [](\A c \in DOMAIN calls :
            (calls[c].consumer = "abandoned"
                /\ calls[c].built # calls[c].got) =>
                    /\ calls[c].pc = "send"
                    /\ ~calls[c].closed
                    /\ ~ENABLED ProducerStep(c))
    /\ [][\A c \in DOMAIN calls :
            (calls[c].consumer = "abandoned" /\ calls[c].pc = "send") =>
                calls'[c] = calls[c]]_vars

\* An Edges() producer is blocked on an abandoned stream while a later
\* call on the generator has run to its end, and so is a Vertices() one.
C22_Witness ==
    \E c, d \in DOMAIN calls :
        /\ calls[c].consumer = "abandoned"
        /\ calls[c].pc = "send"
        /\ calls[c].kind = "E"
        /\ d > c /\ Drained(d)


\* The calls of the first run are one Vertices() and one Edges().
OneOfEach ==
    /\ \E c \in DOMAIN calls : calls[c].run = 1 /\ calls[c].kind = "V"
    /\ \E c \in DOMAIN calls : calls[c].run = 1 /\ calls[c].kind = "E"

\* C21: no step of a Vertices() call reads or advances the random source;
\* and when one Vertices() and one Edges() stream were consumed in any
\* order or interleaving, a call of either kind made alone from the same
\* starting random state delivers the same sequence.
C21_StreamsIndependent ==
    /\ [][\A c \in DOMAIN calls :
            (calls[c].kind = "V" /\ calls'[c] # calls[c]) =>
                /\ UNCHANGED <<seed, rnd>>
                /\ calls'[c].draws = 0]_vars
    /\ [](OneOfEach => \A c1, c2 \in DOMAIN calls :
            (/\ calls[c1].run = 1 /\ calls[c2].run = 2
             /\ calls[c1].kind = calls[c2].kind) =>
                /\ IsPrefix(calls[c2].got, calls[c1].got)
                /\ Drained(c2) => calls[c2].got = calls[c1].got)

\* Edges() was called while the Vertices() stream was part-way, or the
\* other way round; both ran to their end, and a later Edges() call made
\* alone delivered the same two or more edges.
C21_Witness ==
    /\ OneOfEach
    /\ calls[2].overlap
    /\ \E c1, c2 \in DOMAIN calls :
        /\ calls[c1].run = 1 /\ calls[c2].run = 2
        /\ calls[c1].kind = "E" /\ calls[c2].kind = "E"
        /\ Drained(c2)
        /\ Len(calls[c2].got) >= 2
        /\ calls[c2].got = calls[c1].got


\* The Edges() calls of the first run.
ECalls1 == {c \in ECalls : calls[c].run = 1}

\* The words drawn so far by the calls in cs.
RECURSIVE DrawsOf(_)
DrawsOf(cs) ==
    IF cs = {} THEN 0
    ELSE LET c == CHOOSE x \in cs : TRUE
         IN  calls[c].draws + DrawsOf(cs \ {c})

\* C28: two Edges() goroutines on one generator are not kept apart and
\* share its random source. A goroutine at a trial or at a head draw can
\* take its step wherever the other one is; every draw of either moves
\* the one source by one word, and the words read in the first run are
\* those drawn by its calls together.
C28_SharedSource ==
    /\ [](\A c \in ECalls1 :
            /\ calls[c].pc = "trial" => ENABLED EdgesTrial(c)
            /\ calls[c].pc = "head" => ENABLED EdgesHead(c))
    /\ [](run = 1 => DrawsOf(ECalls1) = rnd /\ rnd = Len(seed))
    /\ [][\A c \in DOMAIN calls :
            calls'[c].draws # calls[c].draws =>
                /\ calls'[c].draws = calls[c].draws + 1
                /\ rnd' = rnd + 1]_vars

\* Two Edges() calls ran at the same time, the second made while the
\* stream of the first was part-way; the first, made at the starting
\* random state, delivered a sequence other than the one an Edges() call
\* made alone from that state delivers.
C28_Witness ==
    /\ Len(calls) = 3
    /\ calls[1].kind = "E" /\ calls[2].kind = "E" /\ calls[3].kind = "E"
    /\ calls[2].overlap
    /\ calls[3].run = 2
    /\ \A c \in DOMAIN calls : Drained(c)
    /\ calls[1].got # calls[3].got
    /\ calls[2].got # calls[3].got


\* C29: whatever calls were made before or are running beside it, an
\* Edges() stream has IDs 0, 1, 2, ... (its counter is the number of edges
\* it has delivered), heads in the admissible range and, with Multiedges
\* false, no head twice for a tail; its used-heads set holds heads of its
\* own current tail only; every Vertices() stream is 0 .. V-1, so two
\* drained ones are equal.
C29_CallsStateless ==
    Ready =>
        /\ WellFormed
        /\ \A c \in ECalls :
            /\ calls[c].id = Len(calls[c].got)
            /\ calls[c].pc \in {"trial", "head", "send"} =>
                calls[c].heads \subseteq
                    {calls[c].built[k].V1 : k \in
                        {j \in 1 .. Len(calls[c].built) :
                            calls[c].built[j].V0 = calls[c].tail}}
        /\ \A v1, v2 \in VCalls :
            (Drained(v1) /\ Drained(v2)) => calls[v1].got = calls[v2].got

\* Two overlapping Edges() calls each delivered an edge and ran to their
\* end, and so did a third one made after them.
C29_Witness ==
    /\ Ready /\ Len(calls) = 3
    /\ \A c \in DOMAIN calls :
        calls[c].kind = "E" /\ Drained(c) /\ Len(calls[c].got) >= 1
    /\ calls[2].overlap

=============================================================================
